---- MODULE Spec2Model ----
(***************************************************************************)
(* The funds ledger of the crowdfunding marketplace: POST /api/transactions *)
(* over MongoDBStorage.createTransaction / updateStartupFunds, and the     *)
(* owner's verification (approve / reject) of a pending transaction; the   *)
(* startup profiles: POST /api/startups, PATCH /api/startups/:id and the   *)
(* bulk delete POST /api/admin/clear-startups; the user documents and      *)
(* POST /api/wallet-connect; getUpdatesForInvestor; the in-memory storage  *)
(* MemStorage; and the wallet-transfer handler of the invest page.         *)
(*                                                                         *)
(* Every await of the handler is a step of its own, so that two requests   *)
(* interleave exactly where the event loop lets them.  A storage call that *)
(* can reject (network, validation, no replica set) does so by a           *)
(* nondeterministic choice.  Amounts are integers (minor units).           *)
(***************************************************************************)
EXTENDS Integers, FiniteSets, Sequences, TLC

\* ------------------------------------------------------------ bounds
\* Transaction ids handed out under Spec (new Transaction(...) draws a fresh
\* _id): room for two create requests in flight at once.
MaxTx == 2
\* Transaction ids handed out under SpecVerify.
MaxVerifyTx == 1
\* Startup documents created under SpecStartups.
MaxStartups == 2
\* Transaction ids handed out under SpecSession.
MaxSessionTx == 2
\* Stored transactions under SpecUpdates.
MaxUpdateTx == 2
\* On-chain sends that return a hash under SpecWallet.
MaxSends == 2
\* MemStorage.createTransaction calls under SpecMem and SpecMemClear.
MaxMemTx == 2
\* The highest startup id MemStorage hands out under SpecMemClear.
MaxMemStartups == 2

\* ------------------------------------------------------------ the world
Procs == {"p1", "p2"}

NoUser == "anon"
Users == {"inv1", "own1", "own2"}

\* The users registered with the role investor; the second one only appears
\* as the investor of stored transactions.
Investors == {"inv1", "inv2"}

role(u) == IF u \in Investors THEN "investor" ELSE "startup"

StartupIds == {"s1", "s2"}
MissingId == "s9"

\* startupId values a create request is tried with: an existing startup and an
\* id that resolves to nothing.  The second startup exists and is never paid.
Targets == {"s1", MissingId}

Amounts == {-1, 0, 1}
Methods == {"metamask", "upi"}
Statuses == {"pending", "completed", "failed"}

\* The (method, status) pairs a create request is tried with: what the wallet
\* flow sends, what the two UPI forms send, and a status no form sends.
Kinds ==
    {<<"metamask", "completed">>, <<"upi", "pending">>,
     <<"upi", "completed">>, <<"upi", "failed">>}

NoTx == 0

\* req.body of POST /api/transactions.  wellFormed = FALSE stands for every body
\* that insertTransactionSchema.safeParse refuses (a missing or mistyped field).
MalformedBody ==
    [wellFormed |-> FALSE, startupId |-> MissingId, amount |-> 0,
     method |-> "upi", status |-> "pending"]

WellFormedBodies ==
    {[wellFormed |-> TRUE, startupId |-> s, amount |-> a,
      method |-> k[1], status |-> k[2]] :
        s \in Targets, a \in Amounts, k \in Kinds}

Bodies == WellFormedBodies \cup {MalformedBody}

NoBody == MalformedBody

VARIABLES
    startups,       \* Startup collection: id -> [userId, fundsRaised]
    transactions,   \* Transaction collection (committed rows): id -> row
    nextTxId,       \* the next fresh transaction _id
    txBudget,       \* the last transaction _id the model hands out
    pc,             \* per request: the await the handler is suspended at
    user,           \* per request: req.user (NoUser when unauthenticated)
    body,           \* per request: validatedData.data
    txId,           \* per request: _id of newTransaction (NoTx before save)
    readFunds,      \* per request: startup.fundsRaised as read by findById
    funds,          \* per request: outcome of updateStartupFunds
    resp,           \* HTTP status of the last response of the route (0: none)
    lastVerify,     \* the last verify request and its outcome
    credited,       \* history: per startup, the sum of the amounts whose
                    \* aggregator call reported success
    hist,           \* history: per stored transaction, what was credited for
                    \* it, who created it and who decided it
    session,        \* per request: the ClientSession of createTransaction
    sessionEnds,    \* endSession() calls of the createTransaction call that
                    \* finished last
    users,          \* User collection: id -> document
    updates,        \* Update collection: a set of update documents
    result,         \* the last storage call on record: what it was, what the
                    \* request had sent, what it returned
    client,         \* the invest page: the wallet-transfer handler
    startupIdCounter \* MemStorage.startupIdCounter

vars == <<startups, transactions, nextTxId, txBudget, pc, user, body, txId, readFunds,
          funds, resp, lastVerify, credited, hist, session, sessionEnds, users,
          updates, result, client, startupIdCounter>>

\* The session of createTransaction.
sessions == <<session, sessionEnds>>

\* The state outside the funds ledger and the startup profiles.
others == <<users, updates, client, startupIdCounter>>

NoVerify == [user |-> NoUser, tx |-> NoTx, outcome |-> "none"]

\* walletAddress: { type: String, default: null }.
NoWallet == "null"

\* A field of a document that was never set.
Unset == "unset"

\* A user document as createUser leaves it: the registration's username, email,
\* password and role, no wallet, no UPI id, no picture.
UserDoc(u) ==
    [role |-> role(u), username |-> u, email |-> u \o "@mail", password |-> "pw-" \o u,
     walletAddress |-> NoWallet, upiId |-> Unset, upiQrCode |-> Unset,
     profilePicture |-> Unset]

\* The wallet-transfer handler of the invest page, before the first click.
IdleClient ==
    [pc |-> "idle", page |-> "none", amount |-> 0, toast |-> "none",
     sent |-> <<>>, posted |-> <<>>]

\* No storage call on record.
NoCall == [op |-> "none"]

\* No request holds a session, no createTransaction call has finished.
InitSessions ==
    /\ session = [p \in Procs |-> "none"]
    /\ sessionEnds = 0

InitOthers ==
    /\ users = [u \in Users |-> UserDoc(u)]
    /\ updates = {}
    /\ result = NoCall
    /\ client = IdleClient
    /\ startupIdCounter = 1

InitStore ==
    /\ startups = [s \in StartupIds |->
                     [userId |-> IF s = "s1" THEN "own1" ELSE "own2",
                      fundsRaised |-> 0]]
    /\ transactions = <<>>
    /\ nextTxId = 1
    /\ pc = [p \in Procs |-> "idle"]
    /\ user = [p \in Procs |-> NoUser]
    /\ body = [p \in Procs |-> NoBody]
    /\ txId = [p \in Procs |-> NoTx]
    /\ readFunds = [p \in Procs |-> 0]
    /\ funds = [p \in Procs |-> "none"]
    /\ resp = 0
    /\ lastVerify = NoVerify
    /\ credited = [s \in StartupIds |-> 0]
    /\ hist = <<>>
    /\ InitSessions
    /\ InitOthers

Init == InitStore /\ txBudget = MaxTx

InitVerify == InitStore /\ txBudget = MaxVerifyTx

\* ------------------------------------------------------------ helpers

\* insertTransactionSchema: the picked columns of the transactions table, ids
\* widened to string | number.  amount is doublePrecision().notNull(): any
\* number passes, there is no positivity check.
insertTransactionSchema(b) == b.wellFormed

\* A role check that lets every authenticated user through.
isInvestorAnyone(u) == u # NoUser

\* req.user.role !== "investor" answers 403: only an investor goes on.
isInvestor(u) == role(u) = "investor"

\* Requests that passed validation and have not yet drawn their _id.
Reserved ==
    Cardinality({p \in Procs : pc[p] \in {"getStartup", "startSession", "save"}})

\* res.status(code) of the request p, which ends there.
Respond(p, code) ==
    /\ pc' = [pc EXCEPT ![p] = "idle"]
    /\ resp' = code
    /\ body' = [body EXCEPT ![p] = NoBody]
    /\ user' = [user EXCEPT ![p] = NoUser]
    /\ txId' = [txId EXCEPT ![p] = NoTx]
    /\ readFunds' = [readFunds EXCEPT ![p] = 0]
    /\ funds' = [funds EXCEPT ![p] = "none"]

\* ------------------------------------------------------------ POST /api/transactions

\* req.body.investorId, when the client sent one.
investorIdOf(b) == IF "investorId" \in DOMAIN b THEN b.investorId ELSE NoUser

\* { investorId: req.user.id, ...req.body }: a spread in which the body's own
\* investorId, when it has one, is the last writer.
withInvestorIdFromBody(b, u) ==
    [sentInvestorId |-> investorIdOf(b)] @@ b @@ [investorId |-> u]

\* { ...req.body, investorId: req.user.id }: the session's user id is written
\* after the spread and replaces whatever investorId the body carried.
\* sentInvestorId keeps the replaced value for the record.
withInvestorId(b, u) ==
    [investorId |-> u, sentInvestorId |-> investorIdOf(b)] @@ b

\* The synchronous head of the handler: authentication, role, validation of
\* the body with the session's user id as investorId.
PostTransactions(p, u, b) ==
    /\ UNCHANGED <<sessions, others, result>>
    /\ pc[p] = "idle"
    /\ UNCHANGED <<startups, transactions, nextTxId, txBudget, lastVerify, credited, hist>>
    /\ IF u = NoUser THEN Respond(p, 401)
       ELSE IF ~isInvestor(u) THEN Respond(p, 403)
       ELSE IF ~insertTransactionSchema(b) THEN Respond(p, 400)
       ELSE /\ nextTxId + Reserved <= txBudget
            /\ pc' = [pc EXCEPT ![p] = "getStartup"]
            /\ user' = [user EXCEPT ![p] = u]
            /\ body' = [body EXCEPT ![p] = withInvestorId(b, u)]
            /\ UNCHANGED <<txId, readFunds, funds, resp>>

\* await storage.getStartup(startupId): findById, an error is logged and
\* answered as undefined.
GetStartup(p) ==
    /\ UNCHANGED <<sessions, others, result>>
    /\ pc[p] = "getStartup"
    /\ UNCHANGED <<startups, transactions, nextTxId, txBudget, lastVerify, credited, hist>>
    /\ \E ok \in BOOLEAN :
         IF ok /\ body[p].startupId \in DOMAIN startups THEN
              /\ pc' = [pc EXCEPT ![p] = "startSession"]
              /\ UNCHANGED <<user, body, txId, readFunds, funds, resp>>
         ELSE Respond(p, 404)

\* ------------------------------------------------------------ MongoDBStorage.createTransaction

\* new Transaction(insertTransaction): the document the session will write.
newTransaction(p) ==
    [investorId |-> body[p].investorId, startupId |-> body[p].startupId,
     amount |-> body[p].amount, method |-> body[p].method,
     status |-> body[p].status]

\* const session = await mongoose.startSession(); session.startTransaction().
\* A rejected startSession is outside the inner try: no session exists, the
\* outer catch rethrows and the route answers 500.
StartSession(p) ==
    /\ pc[p] = "startSession"
    /\ UNCHANGED <<others, result>>
    /\ UNCHANGED <<startups, transactions, nextTxId, txBudget, lastVerify, credited,
                   hist, sessionEnds>>
    /\ \E ok \in BOOLEAN :
         IF ok THEN
              /\ session' = [session EXCEPT ![p] = "active"]
              /\ pc' = [pc EXCEPT ![p] = "save"]
              /\ UNCHANGED <<user, body, txId, readFunds, funds, resp>>
         ELSE /\ Respond(p, 500)
              /\ UNCHANGED session

\* await newTransaction.save({ session }): the row is written inside the
\* session and is not visible before the commit.  A rejected save goes to the
\* catch block.
SaveTransaction(p) ==
    /\ UNCHANGED <<others, result>>
    /\ pc[p] = "save"
    /\ UNCHANGED <<startups, transactions, txBudget, lastVerify, credited, hist,
                   user, body, readFunds, funds, resp, sessions>>
    /\ \E ok \in BOOLEAN :
         IF ok THEN
              /\ txId' = [txId EXCEPT ![p] = nextTxId]
              /\ nextTxId' = nextTxId + 1
              /\ pc' = [pc EXCEPT ![p] = "findStartup"]
         ELSE /\ pc' = [pc EXCEPT ![p] = "abort"]
              /\ UNCHANGED <<txId, nextTxId>>

\* updateStartupFunds, first await: Startup.findById(id), outside the session.
\* The call is made whatever insertTransaction.status is.  A missing startup
\* returns undefined; an error is caught, logged and returned as undefined.
\* Either way createTransaction goes on to the commit.
FindStartup(p) ==
    /\ UNCHANGED <<sessions, others, result>>
    /\ pc[p] = "findStartup"
    /\ UNCHANGED <<startups, transactions, nextTxId, txBudget, lastVerify, credited, hist,
                   user, body, txId, resp>>
    /\ \E ok \in BOOLEAN :
         IF ~ok THEN
              /\ funds' = [funds EXCEPT ![p] = "failed"]
              /\ pc' = [pc EXCEPT ![p] = "commit"]
              /\ UNCHANGED readFunds
         ELSE IF body[p].startupId \notin DOMAIN startups THEN
              /\ funds' = [funds EXCEPT ![p] = "missing"]
              /\ pc' = [pc EXCEPT ![p] = "commit"]
              /\ UNCHANGED readFunds
         ELSE /\ readFunds' = [readFunds EXCEPT ![p] =
                                  startups[body[p].startupId].fundsRaised]
              /\ pc' = [pc EXCEPT ![p] = "saveStartup"]
              /\ UNCHANGED funds

\* A save that stores the copy as it was read.
addFundsDropped(read, amount) == read

\* startup.fundsRaised += amount, on the copy read by findById.
addFunds(read, amount) == read + amount

\* updateStartupFunds, second await: startup.save(), outside the session, so the
\* write is durable at once.  It stores the value computed from the copy read
\* earlier.  An error is caught and swallowed.
SaveStartup(p) ==
    /\ UNCHANGED <<sessions, others, result>>
    /\ pc[p] = "saveStartup"
    /\ UNCHANGED <<transactions, nextTxId, txBudget, lastVerify, hist,
                   user, body, txId, resp>>
    /\ pc' = [pc EXCEPT ![p] = "commit"]
    /\ readFunds' = [readFunds EXCEPT ![p] = 0]
    /\ \E ok \in BOOLEAN :
         IF ok /\ body[p].startupId \in DOMAIN startups THEN
              /\ startups' = [startups EXCEPT ![body[p].startupId].fundsRaised =
                                 addFunds(readFunds[p], body[p].amount)]
              /\ credited' = [credited EXCEPT ![body[p].startupId] =
                                 @ + body[p].amount]
              /\ funds' = [funds EXCEPT ![p] = "ok"]
         ELSE /\ funds' = [funds EXCEPT ![p] = "failed"]
              /\ UNCHANGED <<startups, credited>>

\* finally { session.endSession() } of a call that left the try block by its
\* return: one call.
endsOnReturn == 1

\* A finally block that is skipped when abortTransaction itself rejects.
endsOnThrowUnlessAbortFails(abortOk) == IF abortOk THEN 1 ELSE 0

\* finally { session.endSession() } of a call that left through the catch
\* block: one call, whether abortTransaction resolved or rejected.
endsOnThrow(abortOk) == 1

\* await session.commitTransaction(): the row becomes visible, the finally
\* block ends the session and the route answers 201 with the row; a rejected
\* commit goes to the catch block.
CommitTransaction(p) ==
    /\ UNCHANGED <<others, result>>
    /\ pc[p] = "commit"
    /\ UNCHANGED <<startups, nextTxId, txBudget, lastVerify, credited>>
    /\ \E ok \in BOOLEAN :
         IF ok THEN
              /\ transactions' = (txId[p] :> newTransaction(p)) @@ transactions
              /\ hist' = (txId[p] :> [createAgg |-> funds[p] = "ok",
                                      approveAgg |-> 0,
                                      decidedBy |-> NoUser,
                                      createdBy |-> user[p],
                                      sentInvestorId |-> body[p].sentInvestorId])
                          @@ hist
              /\ session' = [session EXCEPT ![p] = "none"]
              /\ sessionEnds' = endsOnReturn
              /\ Respond(p, 201)
         ELSE /\ pc' = [pc EXCEPT ![p] = "abort"]
              /\ UNCHANGED <<transactions, hist, user, body, txId, readFunds,
                             funds, resp, sessions>>

\* catch: await session.abortTransaction(); throw error; finally endSession().
\* The session's row is dropped; the write of startup.save() was not part of
\* the session and stays.  The route hands the error to next(error): 500.
\* abortTransaction may itself reject: its error replaces the first one, the
\* finally block runs all the same and the route answers 500 either way.
AbortTransaction(p) ==
    /\ UNCHANGED <<others, result>>
    /\ pc[p] = "abort"
    /\ UNCHANGED <<startups, transactions, nextTxId, txBudget, lastVerify, credited, hist>>
    /\ \E abortOk \in BOOLEAN :
         /\ session' = [session EXCEPT ![p] = "none"]
         /\ sessionEnds' = endsOnThrow(abortOk)
         /\ Respond(p, 500)

\* ------------------------------------------------------------ PATCH /api/transactions/:id/verify
\* The client's approve and reject mutations call this route; its handler is
\* not among the routes of registerRoutes, and IStorage has no operation that
\* writes a transaction's status.  It is modelled from the design of the
\* status-transition path: restricted to the authenticated owner of the
\* startup the transaction references, a conditional transition out of
\* pending, and on approval one call of the funds aggregator.

\* An authorization that checks the role and not the ownership.
isOwnerAnyStartupUser(u, t) ==
    /\ transactions[t].startupId \in DOMAIN startups
    /\ role(u) = "startup"

\* The authenticated user owns the startup the transaction references.
isOwner(u, t) ==
    /\ transactions[t].startupId \in DOMAIN startups
    /\ startups[transactions[t].startupId].userId = u

\* A transition that does not look at the current status.
canTransitionAlways(t) == t \in DOMAIN transactions

\* A transition that is refused only for a failed row.
canTransitionUnlessFailed(t) == transactions[t].status # "failed"

\* Only a pending row may be transitioned.
canTransition(t) == transactions[t].status = "pending"

\* An aggregator call that leaves the counter as it was.
aggregateDropped(raised, amount) == raised

\* The funds aggregator as the approval invokes it: one atomic increment of the
\* startup's fundsRaised by the amount.
aggregate(raised, amount) == raised + amount

VerifyTransaction(u, t, st) ==
    /\ UNCHANGED <<sessions, others, result>>
    /\ UNCHANGED <<nextTxId, txBudget, pc, user, body, txId, readFunds, funds, resp>>
    /\ IF u = NoUser THEN
            /\ lastVerify' = [user |-> u, tx |-> t, outcome |-> "unauthenticated"]
            /\ UNCHANGED <<startups, transactions, credited, hist>>
       ELSE IF t \notin DOMAIN transactions THEN
            /\ lastVerify' = [user |-> u, tx |-> t, outcome |-> "notFound"]
            /\ UNCHANGED <<startups, transactions, credited, hist>>
       ELSE IF ~isOwner(u, t) THEN
            /\ lastVerify' = [user |-> u, tx |-> t, outcome |-> "forbidden"]
            /\ UNCHANGED <<startups, transactions, credited, hist>>
       ELSE IF ~canTransition(t) THEN
            /\ lastVerify' = [user |-> u, tx |-> t, outcome |-> "notPending"]
            /\ UNCHANGED <<startups, transactions, credited, hist>>
       ELSE /\ lastVerify' = [user |-> u, tx |-> t, outcome |-> st]
            /\ transactions' = [transactions EXCEPT ![t].status = st]
            /\ IF st = "completed" THEN
                    /\ startups' = [startups EXCEPT
                           ![transactions[t].startupId].fundsRaised =
                               aggregate(@, transactions[t].amount)]
                    /\ credited' = [credited EXCEPT
                           ![transactions[t].startupId] = @ + transactions[t].amount]
                    /\ hist' = [hist EXCEPT ![t].approveAgg = @ + 1,
                                            ![t].decidedBy = u]
               ELSE /\ hist' = [hist EXCEPT ![t].decidedBy = u]
                    /\ UNCHANGED <<startups, credited>>

\* ------------------------------------------------------------ req.body, field by field

\* How a field of the request body arrives: of the type the schema asks for,
\* absent, or of another type (a string for a number, a value outside the enum).
FieldForms == {"valid", "missing", "malformed"}

\* Request bodies told apart by the form of amount, method, startupId and
\* transactionReference; status is always a member of its enum here.
RawBodies ==
    {[startupId |-> "s1", amount |-> 1, method |-> "upi", status |-> "pending",
      amountForm |-> a, methodForm |-> m, startupIdForm |-> s,
      referenceForm |-> r] :
        a \in FieldForms, m \in FieldForms, s \in FieldForms, r \in FieldForms}

\* A schema whose amount is optional.
safeParseAmountOptional(raw) ==
    /\ raw.amountForm # "malformed"
    /\ raw.methodForm = "valid"
    /\ raw.startupIdForm = "valid"
    /\ raw.referenceForm # "malformed"

\* insertTransactionSchema.safeParse(...).success: amount, method and startupId
\* are notNull columns and so required; transactionReference is a nullable
\* text column and so an optional string.
safeParse(raw) ==
    /\ raw.amountForm = "valid"
    /\ raw.methodForm = "valid"
    /\ raw.startupIdForm = "valid"
    /\ raw.referenceForm # "malformed"

\* The outcome of safeParse for a raw body, as the handler reads it.
validatedData(raw) == [wellFormed |-> safeParse(raw)] @@ raw

\* The same bodies with an investorId of the client's choosing: the id of
\* another user.
ForgedBodies == {[investorId |-> "own1"] @@ raw : raw \in RawBodies}

RawBodiesOf(u) ==
    IF u # NoUser /\ isInvestor(u) THEN RawBodies \cup ForgedBodies
    ELSE {[startupId |-> "s1", amount |-> 1, method |-> "upi",
           status |-> "pending", amountForm |-> "missing",
           methodForm |-> "missing", startupIdForm |-> "missing",
           referenceForm |-> "missing"]}

\* ------------------------------------------------------------ POST /api/admin/clear-startups

\* await storage.deleteAllStartups(), with no authentication check in front of
\* it: every startup document is removed.  A rejected call answers 500.
ClearStartups ==
    /\ UNCHANGED <<sessions, others, result>>
    /\ UNCHANGED <<transactions, nextTxId, txBudget, pc, user, body, txId,
                   readFunds, funds, lastVerify, credited, hist>>
    /\ \E ok \in BOOLEAN :
         IF ok THEN /\ startups' = <<>>
                    /\ resp' = 200
         ELSE /\ resp' = 500
              /\ UNCHANGED startups

\* ------------------------------------------------------------ POST /api/startups

\* The users a startup request body names as userId.
StartupUsers == {u \in Users : role(u) = "startup"}

\* The fundsRaised a request body may carry: the field is absent ({}) or
\* holds a number.
SentFunds == {{}, {1}}

\* What a startup request body says about userId: a user's id, or NoUser when
\* the field is absent; it carries no fundsRaised.  wellFormed = FALSE stands
\* for every body that startupValidationSchema refuses.
StartupBodies ==
    {[wellFormed |-> FALSE, userId |-> NoUser, startupId |-> MissingId,
      fundsRaised |-> {}]}
    \cup {[wellFormed |-> TRUE, userId |-> o, startupId |-> MissingId,
            fundsRaised |-> {}] :
             o \in StartupUsers \cup {NoUser}}

\* Startup request bodies told apart by what they say about fundsRaised.
FundsBodies ==
    {[wellFormed |-> FALSE, userId |-> NoUser, startupId |-> MissingId,
      fundsRaised |-> {}]}
    \cup {[wellFormed |-> TRUE, userId |-> NoUser, startupId |-> MissingId,
            fundsRaised |-> f] : f \in SentFunds}

\* A schema that keeps the keys it does not know.
startupValidationSchemaPassthrough(b) == [stripped |-> {}] @@ b

\* startupValidationSchema.safeParse(...).data: insertStartupSchema picks
\* userId, name, description, pitch, stage, fundingGoal, imageUrl,
\* documentUrl, upiId, walletAddress and endDate; a zod object drops every
\* other key of its input, fundsRaised among them.  stripped keeps the dropped
\* value for the record.
startupValidationSchema(b) ==
    [stripped |-> b.fundsRaised] @@ [b EXCEPT !.fundsRaised = {}]

\* A partial schema that keeps the keys it does not know.
partialSchemaPassthrough(b) == [stripped |-> {}] @@ b

\* startupValidationSchema.partial().safeParse(...).data: the same keys, each
\* optional; every other key is dropped.
partialSchema(b) ==
    [stripped |-> b.fundsRaised] @@ [b EXCEPT !.fundsRaised = {}]

\* fundsRaised of a document built from the data d, where the stored document
\* has old: the data's value when it carries one, else what the document has
\* (for a new document the schema's default).
fundsRaisedOf(d, old) ==
    IF d.fundsRaised = {} THEN old ELSE CHOOSE f \in d.fundsRaised : TRUE

\* fundsRaised: { type: Number, default: 0 }.
DefaultFunds == 0

\* Startup requests that may still insert a document.
StartupsReserved ==
    Cardinality({p \in Procs : pc[p] \in {"checkExisting", "createStartup"}})

\* The _id of the next startup document.
newStartupId == "s" \o ToString(Cardinality(DOMAIN startups) + 1)

\* Startup.findOne({ userId }): the documents the query can return.
startupsOfUser(u) == {s \in DOMAIN startups : startups[s].userId = u}

\* The synchronous head: authentication and role.  The body is spread with
\* userId: req.user.id over it.
PostStartups(p, u, b) ==
    /\ UNCHANGED <<sessions, others, result>>
    /\ pc[p] = "idle"
    /\ UNCHANGED <<startups, transactions, nextTxId, txBudget, lastVerify,
                   credited, hist>>
    /\ IF u = NoUser THEN Respond(p, 401)
       ELSE IF role(u) # "startup" THEN Respond(p, 403)
       ELSE /\ Cardinality(DOMAIN startups) + StartupsReserved < MaxStartups
            /\ pc' = [pc EXCEPT ![p] = "checkExisting"]
            /\ user' = [user EXCEPT ![p] = u]
            /\ body' = [body EXCEPT ![p] = [b EXCEPT !.userId = u]]
            /\ UNCHANGED <<txId, readFunds, funds, resp>>

\* await storage.getStartupByUserId(req.user.id), where an error is logged and
\* answered as undefined; then the validation of the body.
CheckExisting(p) ==
    /\ UNCHANGED <<sessions, others, result>>
    /\ pc[p] = "checkExisting"
    /\ UNCHANGED <<startups, transactions, nextTxId, txBudget, lastVerify,
                   credited, hist>>
    /\ \E ok \in BOOLEAN :
         IF ok /\ startupsOfUser(user[p]) # {} THEN Respond(p, 400)
         ELSE IF ~body[p].wellFormed THEN Respond(p, 400)
         ELSE /\ pc' = [pc EXCEPT ![p] = "createStartup"]
              /\ body' = [body EXCEPT ![p] = startupValidationSchema(@)]
              /\ UNCHANGED <<user, txId, readFunds, funds, resp>>

\* await storage.createStartup(validatedData.data): new Startup(...).save(),
\* fundsRaised taking the schema's default when the data has none.  A rejected
\* save is thrown on.
CreateStartup(p) ==
    /\ UNCHANGED <<sessions, others>>
    /\ pc[p] = "createStartup"
    /\ UNCHANGED <<transactions, nextTxId, txBudget, lastVerify, credited, hist>>
    /\ \E ok \in BOOLEAN :
         IF ok THEN
              /\ startups' =
                     (newStartupId :>
                          [userId |-> body[p].userId,
                           fundsRaised |-> fundsRaisedOf(body[p], DefaultFunds)])
                     @@ startups
              /\ result' = [op |-> "createStartup", id |-> newStartupId,
                            stripped |-> body[p].stripped]
              /\ Respond(p, 201)
         ELSE /\ UNCHANGED <<startups, result>>
              /\ Respond(p, 500)

\* ------------------------------------------------------------ PATCH /api/startups/:id

\* The synchronous head: authentication.  req.params.id and the body are kept.
PatchStartup(p, u, id, b) ==
    /\ UNCHANGED <<sessions, others, result>>
    /\ pc[p] = "idle"
    /\ UNCHANGED <<startups, transactions, nextTxId, txBudget, lastVerify,
                   credited, hist>>
    /\ IF u = NoUser THEN Respond(p, 401)
       ELSE /\ pc' = [pc EXCEPT ![p] = "patchGet"]
            /\ user' = [user EXCEPT ![p] = u]
            /\ body' = [body EXCEPT ![p] = [b EXCEPT !.startupId = id]]
            /\ UNCHANGED <<txId, readFunds, funds, resp>>

\* await storage.getStartup(startupId).
PatchGet(p) ==
    /\ UNCHANGED <<sessions, others, result>>
    /\ pc[p] = "patchGet"
    /\ UNCHANGED <<startups, transactions, nextTxId, txBudget, lastVerify,
                   credited, hist>>
    /\ \E ok \in BOOLEAN :
         IF ok /\ body[p].startupId \in DOMAIN startups THEN
              /\ pc' = [pc EXCEPT ![p] = "patchOwner"]
              /\ UNCHANGED <<user, body, txId, readFunds, funds, resp>>
         ELSE Respond(p, 404)

\* await storage.getStartupByUserId(req.user.id): the request goes on when the
\* document found is the one being edited; then the validation of the body
\* against the partial schema, which keeps userId.
PatchOwner(p) ==
    /\ UNCHANGED <<sessions, others, result>>
    /\ pc[p] = "patchOwner"
    /\ UNCHANGED <<startups, transactions, nextTxId, txBudget, lastVerify,
                   credited, hist>>
    /\ \E ok \in BOOLEAN,
          found \in IF startupsOfUser(user[p]) = {} THEN {MissingId}
                    ELSE startupsOfUser(user[p]) :
         IF ~ok \/ found # body[p].startupId THEN Respond(p, 403)
         ELSE IF ~body[p].wellFormed THEN Respond(p, 400)
         ELSE /\ pc' = [pc EXCEPT ![p] = "patchUpdate"]
              /\ body' = [body EXCEPT ![p] = partialSchema(@)]
              /\ UNCHANGED <<user, txId, readFunds, funds, resp>>

\* await storage.updateStartup(startupId, validatedData.data):
\* findByIdAndUpdate sets the fields the body carries.  No document, or an
\* error, is answered as undefined and then 500.
PatchUpdate(p) ==
    /\ UNCHANGED <<sessions, others>>
    /\ pc[p] = "patchUpdate"
    /\ UNCHANGED <<transactions, nextTxId, txBudget, lastVerify, credited, hist>>
    /\ \E ok \in BOOLEAN :
         IF ok /\ body[p].startupId \in DOMAIN startups THEN
              /\ startups' = [startups EXCEPT
                     ![body[p].startupId].userId =
                         IF body[p].userId # NoUser THEN body[p].userId ELSE @,
                     ![body[p].startupId].fundsRaised = fundsRaisedOf(body[p], @)]
              /\ result' = [op |-> "updateStartup", id |-> body[p].startupId,
                            stripped |-> body[p].stripped]
              /\ Respond(p, 200)
         ELSE /\ UNCHANGED <<startups, result>>
              /\ Respond(p, 500)

\* ------------------------------------------------------------ getUpdatesForInvestor

Visibilities == {"all-investors", "major-investors"}

\* The update documents a collection is drawn from: for each startup one of
\* either visibility, createdAt in the order of the ids.
UpdateDocs ==
    {[id |-> 1, startupId |-> "s1", visibility |-> "all-investors", createdAt |-> 1],
     [id |-> 2, startupId |-> "s1", visibility |-> "major-investors", createdAt |-> 2],
     [id |-> 3, startupId |-> "s2", visibility |-> "major-investors", createdAt |-> 3],
     [id |-> 4, startupId |-> "s2", visibility |-> "all-investors", createdAt |-> 4]}

\* The stored rows a transaction collection is drawn from: any investor, any
\* startup, any status.
StoredRows ==
    {[investorId |-> i, startupId |-> st, amount |-> 1, method |-> "upi",
      status |-> x] : i \in Investors, st \in StartupIds, x \in Statuses}

\* A query that only follows the completed transactions.
investedStartupsCompletedOnly(i) ==
    {transactions[t].startupId :
        t \in {x \in DOMAIN transactions :
                  /\ transactions[x].investorId = i
                  /\ transactions[x].status = "completed"}}

\* Transaction.find({ investorId }) and the forEach that collects each
\* startupId once: the status of a row is not looked at.
investedStartups(i) ==
    {transactions[t].startupId :
        t \in {x \in DOMAIN transactions : transactions[x].investorId = i}}

\* .sort({ createdAt: -1 }): the newest document first.
RECURSIVE sortByCreatedAtDesc(_)
sortByCreatedAtDesc(docs) ==
    IF docs = {} THEN <<>>
    ELSE LET newest == CHOOSE d \in docs : \A e \in docs : e.createdAt <= d.createdAt
         IN  <<newest>> \o sortByCreatedAtDesc(docs \ {newest})

\* Update.find({ startupId: { $in: startupIdsArray } }).sort({ createdAt: -1 }):
\* no condition on visibility.
getUpdatesForInvestor(i) ==
    sortByCreatedAtDesc({d \in updates : d.startupId \in investedStartups(i)})

\* One call of storage.getUpdatesForInvestor(i).  Nothing writes the two
\* collections while it runs, so its two queries are one step.  A query that
\* rejects is caught, logged and answered with the empty list.
GetUpdatesForInvestor(i) ==
    /\ UNCHANGED <<startups, transactions, nextTxId, txBudget, pc, user, body, txId,
                   readFunds, funds, resp, lastVerify, credited, hist, sessions,
                   others>>
    /\ \E ok \in BOOLEAN :
         result' = [op |-> "getUpdatesForInvestor", investor |-> i, ok |-> ok,
                    returned |-> IF ok THEN getUpdatesForInvestor(i) ELSE <<>>]

\* Any transaction collection of up to MaxUpdateTx rows, any update collection.
InitUpdates ==
    /\ startups = [s \in StartupIds |->
                     [userId |-> IF s = "s1" THEN "own1" ELSE "own2",
                      fundsRaised |-> 0]]
    /\ \E n \in 0..MaxUpdateTx :
          /\ transactions \in [1..n -> StoredRows]
          /\ nextTxId = n + 1
          /\ txBudget = n
    /\ hist = [t \in DOMAIN transactions |->
                 [createAgg |-> FALSE, approveAgg |-> 0, decidedBy |-> NoUser,
                  createdBy |-> transactions[t].investorId,
                  sentInvestorId |-> NoUser]]
    /\ pc = [p \in Procs |-> "idle"]
    /\ user = [p \in Procs |-> NoUser]
    /\ body = [p \in Procs |-> NoBody]
    /\ txId = [p \in Procs |-> NoTx]
    /\ readFunds = [p \in Procs |-> 0]
    /\ funds = [p \in Procs |-> "none"]
    /\ resp = 0
    /\ lastVerify = NoVerify
    /\ credited = [s \in StartupIds |-> 0]
    /\ InitSessions
    /\ users = [u \in Users |-> UserDoc(u)]
    /\ updates \in SUBSET UpdateDocs
    /\ result = NoCall
    /\ client = IdleClient
    /\ startupIdCounter = 1

NextUpdates == \E i \in Investors : GetUpdatesForInvestor(i)

SpecUpdates == InitUpdates /\ [][NextUpdates]_vars

\* ------------------------------------------------------------ the wallet-transfer client flow
\* client.sent is the list of hashes eth_sendTransaction has returned,
\* client.posted the list of bodies of the create requests issued.

\* The two pages with a wallet payment button: invest.tsx and the payment page.
Pages == {"invest", "payment"}

\* What the amount field holds: nothing usable, or a positive number.
ClientAmounts == {0, 1, 2}

\* Transaction hashes the wallet may return.
Hashes == {"0xa1", "0xb2"}

\* txHash of a send that returned nothing.
NoHash == "undefined"

\* A handler that records the transaction in a finally block.
postsAfterSendAlways(outcome) == TRUE

\* The create request is the statement after the awaited sendTransaction, in
\* the same try block: it runs only when the await returned.
postsAfterSend(outcome) == outcome = "hash"

\* The body of the create request: transactionReference is txHash.  invest.tsx
\* sends the user's id as investorId, the payment page sends none.
createBody(page, amount, txHash) ==
    [amount |-> amount, method |-> "metamask", status |-> "completed",
     transactionReference |-> txHash, sendsInvestorId |-> page = "invest"]

\* The click on the wallet payment button, up to the first await of
\* sendTransaction.  Without a startup, a user or the user's wallet the
\* handler returns; invest.tsx throws on an unusable amount and on a startup
\* without a wallet, the payment page falls back to a fixed address;
\* sendTransaction throws when MetaMask is not installed.
ClickPay(page, amount, userWallet, startupWallet, installed) ==
    /\ client.pc = "idle"
    /\ Len(client.sent) < MaxSends
    /\ UNCHANGED <<startups, transactions, nextTxId, txBudget, pc, user, body, txId,
                   readFunds, funds, resp, lastVerify, credited, hist, sessions,
                   users, updates, result, startupIdCounter>>
    /\ IF ~userWallet THEN
            client' = [client EXCEPT !.toast =
                          IF page = "invest" THEN "wallet required" ELSE @]
       ELSE IF page = "invest" /\ (amount <= 0 \/ ~startupWallet) THEN
            client' = [client EXCEPT !.toast = "failed"]
       ELSE IF ~installed THEN
            client' = [client EXCEPT !.toast = "failed"]
       ELSE client' = [client EXCEPT !.pc = "accounts", !.page = page,
                                     !.amount = amount, !.toast = "none"]

\* await window.ethereum.request({ method: 'eth_accounts' }): no account, or a
\* rejected request, is thrown to the handler's catch.
EthAccounts ==
    /\ client.pc = "accounts"
    /\ UNCHANGED <<startups, transactions, nextTxId, txBudget, pc, user, body, txId,
                   readFunds, funds, resp, lastVerify, credited, hist, sessions,
                   users, updates, result, startupIdCounter>>
    /\ \E outcome \in {"account", "none", "error"} :
         IF outcome = "account" THEN client' = [client EXCEPT !.pc = "send"]
         ELSE client' = [client EXCEPT !.pc = "idle", !.page = "none",
                                       !.amount = 0, !.toast = "failed"]

\* await window.ethereum.request({ method: 'eth_sendTransaction' }): the wallet
\* returns a hash, the user rejects (code 4001), or the request fails.  On a
\* hash the handler issues the create request; otherwise the catch block shows
\* a toast.
EthSendTransaction ==
    /\ client.pc = "send"
    /\ UNCHANGED <<startups, transactions, nextTxId, txBudget, pc, user, body, txId,
                   readFunds, funds, resp, lastVerify, credited, hist, sessions,
                   users, updates, result, startupIdCounter>>
    /\ \E outcome \in {"hash", "rejected", "error"}, h \in Hashes :
         LET txHash == IF outcome = "hash" THEN h ELSE NoHash
         IN  client' =
               [client EXCEPT
                  !.pc = "idle",
                  !.page = "none",
                  !.amount = 0,
                  !.toast = IF outcome = "hash" THEN "none" ELSE "failed",
                  !.sent = IF outcome = "hash" THEN Append(@, h) ELSE @,
                  !.posted = IF postsAfterSend(outcome)
                             THEN Append(@, createBody(client.page, client.amount, txHash))
                             ELSE @]

NextWallet ==
    \/ \E page \in Pages, amount \in ClientAmounts,
          userWallet \in BOOLEAN, startupWallet \in BOOLEAN, installed \in BOOLEAN :
           ClickPay(page, amount, userWallet, startupWallet, installed)
    \/ EthAccounts
    \/ EthSendTransaction

\* The page before the first click; the server takes no step.
InitWallet == InitStore /\ txBudget = 0

SpecWallet == InitWallet /\ [][NextWallet]_vars

\* ------------------------------------------------------------ the user documents

\* The users who send wallet and profile requests; the third user's document
\* is never written.
ActiveUsers == {"inv1", "own1"}

\* Wallet addresses of 42 characters a request may carry.
Wallets == {"0xw1", "0xw2"}

UpiIds == {"u1@upi"}
QrPaths == {"/uploads/qr1"}
ProfilePaths == {"/uploads/pic1"}

\* User.findByIdAndUpdate(id, data): the fields named in data are set, every
\* other field of the document stays.
findByIdAndUpdate(doc, data) ==
    [f \in DOMAIN doc |-> IF f \in DOMAIN data THEN data[f] ELSE doc[f]]

\* An update document that also names the role.
walletDataWithRole(walletAddress) ==
    [walletAddress |-> walletAddress, role |-> "investor"]

\* updateUserWallet: { walletAddress }.
walletData(walletAddress) == [walletAddress |-> walletAddress]

\* updateUserUpi: { upiId }.
upiData(upiId) == [upiId |-> upiId]

\* updateUserProfile: { profilePicture: profilePath }.
profileData(profilePath) == [profilePicture |-> profilePath]

\* updateUserUpiQr: { upiQrCode: qrPath }, and upiId when one is given.
upiQrData(qrPath, upiId) ==
    IF upiId = Unset THEN [upiQrCode |-> qrPath]
    ELSE [upiQrCode |-> qrPath, upiId |-> upiId]

\* User.findOne({ walletAddress }): the documents the query can return.
usersWithWallet(w) == {u \in Users : users[u].walletAddress = w}

\* POST /api/wallet-connect, the synchronous head: authentication and
\* walletConnectSchema (a string of 42 characters).
WalletConnect(p, u, w, valid) ==
    /\ pc[p] = "idle"
    /\ UNCHANGED <<startups, transactions, nextTxId, txBudget, lastVerify, credited,
                   hist, sessions, updates, result, client, startupIdCounter>>
    /\ UNCHANGED users
    /\ IF u = NoUser THEN Respond(p, 401)
       ELSE IF ~valid THEN Respond(p, 400)
       ELSE /\ pc' = [pc EXCEPT ![p] = "walletCheck"]
            /\ user' = [user EXCEPT ![p] = u]
            /\ body' = [body EXCEPT ![p] = walletData(w)]
            /\ UNCHANGED <<txId, readFunds, funds, resp>>

\* await storage.getUserByWalletAddress(walletAddress): an error is logged
\* and answered as undefined.  A document of another user answers 400.
WalletCheck(p) ==
    /\ pc[p] = "walletCheck"
    /\ UNCHANGED <<startups, transactions, nextTxId, txBudget, lastVerify, credited,
                   hist, sessions, updates, result, client, startupIdCounter>>
    /\ UNCHANGED users
    /\ \E ok \in BOOLEAN,
          existingUser \in IF usersWithWallet(body[p].walletAddress) = {}
                           THEN {NoUser}
                           ELSE usersWithWallet(body[p].walletAddress) :
         IF ok /\ existingUser # NoUser /\ existingUser # user[p]
         THEN Respond(p, 400)
         ELSE /\ pc' = [pc EXCEPT ![p] = "walletUpdate"]
              /\ UNCHANGED <<user, body, txId, readFunds, funds, resp>>

\* await storage.updateUserWallet(req.user.id, walletAddress): the user
\* document is written first; for a startup user the startup's copy of the
\* address is written after it.  A rejected write of either is caught and
\* answered as undefined, which the route answers with 404.
WalletUpdate(p) ==
    /\ pc[p] = "walletUpdate"
    /\ UNCHANGED <<startups, transactions, nextTxId, txBudget, lastVerify, credited,
                   hist, sessions, updates, result, client, startupIdCounter>>
    /\ \E userOk \in BOOLEAN, startupOk \in BOOLEAN :
         /\ users' = IF userOk
                      THEN [users EXCEPT ![user[p]] =
                               findByIdAndUpdate(@, walletData(body[p].walletAddress))]
                      ELSE users
         /\ IF userOk /\ (role(user[p]) # "startup" \/ startupOk)
            THEN Respond(p, 200)
            ELSE Respond(p, 404)

\* storage.updateUserUpi(id, upiId).
UpdateUserUpi(u, upiId) ==
    /\ UNCHANGED <<pc, user, body, txId, readFunds, funds, resp>>
    /\ UNCHANGED <<startups, transactions, nextTxId, txBudget, lastVerify, credited,
                   hist, sessions, updates, result, client, startupIdCounter>>
    /\ users' = [users EXCEPT ![u] = findByIdAndUpdate(@, upiData(upiId))]
    /\ users' # users

\* storage.updateUserProfile(id, profilePath).
UpdateUserProfile(u, profilePath) ==
    /\ UNCHANGED <<pc, user, body, txId, readFunds, funds, resp>>
    /\ UNCHANGED <<startups, transactions, nextTxId, txBudget, lastVerify, credited,
                   hist, sessions, updates, result, client, startupIdCounter>>
    /\ users' = [users EXCEPT ![u] = findByIdAndUpdate(@, profileData(profilePath))]
    /\ users' # users

\* storage.updateUserUpiQr(id, qrPath, upiId).
UpdateUserUpiQr(u, qrPath, upiId) ==
    /\ UNCHANGED <<pc, user, body, txId, readFunds, funds, resp>>
    /\ UNCHANGED <<startups, transactions, nextTxId, txBudget, lastVerify, credited,
                   hist, sessions, updates, result, client, startupIdCounter>>
    /\ users' = [users EXCEPT ![u] = findByIdAndUpdate(@, upiQrData(qrPath, upiId))]
    /\ users' # users

\* The registered users, none with a wallet.
InitUsers == InitStore /\ txBudget = 0

NextUsers ==
    \/ \E p \in Procs, u \in ActiveUsers \cup {NoUser}, w \in Wallets,
          valid \in BOOLEAN : WalletConnect(p, u, w, valid)
    \/ \E p \in Procs : WalletCheck(p)
    \/ \E p \in Procs : WalletUpdate(p)
    \/ \E u \in ActiveUsers, upiId \in UpiIds : UpdateUserUpi(u, upiId)
    \/ \E u \in ActiveUsers, path \in ProfilePaths : UpdateUserProfile(u, path)
    \/ \E u \in ActiveUsers, qr \in QrPaths, upiId \in UpiIds \cup {Unset} :
           UpdateUserUpiQr(u, qr, upiId)

SpecUsers == InitUsers /\ [][NextUsers]_vars

\* ------------------------------------------------------------ MemStorage
\* The in-memory storage: startups and transactions are its two maps,
\* nextTxId is transactionIdCounter.  Its methods are async functions without
\* I/O: a call runs to its first await without interruption.

\* insertTransaction of a storage call: an investor's payment of either kind.
MemBodies(ids) ==
    {[investorId |-> "inv1", startupId |-> st, amount |-> a, method |-> k[1],
      status |-> k[2]] :
        st \in ids, a \in Amounts,
        k \in {<<"metamask", "completed">>, <<"upi", "pending">>}}

\* An update that stores the amount in place of the sum.
memAddFundsOverwrite(raised, amount) == amount

\* updateStartupFunds: fundsRaised: startup.fundsRaised + amount, read and
\* written in one synchronous run.
memAddFunds(raised, amount) == raised + amount

\* createTransaction up to its await: the id is drawn, the row is set and
\* updateStartupFunds has run to its end (a startup that is not in the map is
\* left alone); the caller is suspended on the returned promise.
MemCreateTransaction(p, b) ==
    /\ pc[p] = "idle"
    /\ nextTxId <= txBudget
    /\ UNCHANGED <<txBudget, user, body, readFunds, funds, resp, lastVerify,
                   credited, sessions, users, updates, client>>
    /\ UNCHANGED startupIdCounter
    /\ transactions' = (nextTxId :> b) @@ transactions
    /\ hist' = (nextTxId :> [createAgg |-> b.startupId \in DOMAIN startups,
                             approveAgg |-> 0, decidedBy |-> NoUser,
                             createdBy |-> b.investorId,
                             sentInvestorId |-> NoUser]) @@ hist
    /\ nextTxId' = nextTxId + 1
    /\ startups' = IF b.startupId \in DOMAIN startups
                   THEN [startups EXCEPT ![b.startupId].fundsRaised =
                            memAddFunds(@, b.amount)]
                   ELSE startups
    /\ txId' = [txId EXCEPT ![p] = nextTxId]
    /\ pc' = [pc EXCEPT ![p] = "memReturn"]
    /\ UNCHANGED result

\* The continuation after the await: return transaction.
MemReturn(p) ==
    /\ pc[p] = "memReturn"
    /\ UNCHANGED <<txBudget, user, body, readFunds, funds, resp, lastVerify,
                   credited, sessions, users, updates, client>>
    /\ UNCHANGED <<startups, transactions, nextTxId, hist, startupIdCounter>>
    /\ result' = [op |-> "createTransaction", id |-> txId[p]]
    /\ txId' = [txId EXCEPT ![p] = NoTx]
    /\ pc' = [pc EXCEPT ![p] = "idle"]

\* createStartup: const id = this.startupIdCounter++, fundsRaised: 0.
MemCreateStartup(u) ==
    /\ startupIdCounter <= MaxMemStartups
    /\ UNCHANGED <<txBudget, user, body, readFunds, funds, resp, lastVerify,
                   credited, sessions, users, updates, client>>
    /\ UNCHANGED <<transactions, nextTxId, hist, pc, txId>>
    /\ startups' = ("s" \o ToString(startupIdCounter) :>
                        [userId |-> u, fundsRaised |-> 0]) @@ startups
    /\ startupIdCounter' = startupIdCounter + 1
    /\ result' = [op |-> "createStartup",
                  id |-> "s" \o ToString(startupIdCounter), stripped |-> {}]

\* deleteAllStartups: this.startups.clear(); this.startupIdCounter = 1.  The
\* transactions map is left as it is.
MemDeleteAllStartups ==
    /\ UNCHANGED <<txBudget, user, body, readFunds, funds, resp, lastVerify,
                   credited, sessions, users, updates, client>>
    /\ UNCHANGED <<transactions, nextTxId, hist, pc, txId>>
    /\ startups # <<>>
    /\ startups' = <<>>
    /\ startupIdCounter' = 1
    /\ result' = [op |-> "deleteAllStartups"]

\* Two startups created, no transaction yet.
InitMem ==
    /\ startups = [s \in StartupIds |->
                     [userId |-> IF s = "s1" THEN "own1" ELSE "own2",
                      fundsRaised |-> 0]]
    /\ startupIdCounter = Cardinality(StartupIds) + 1
    /\ transactions = <<>>
    /\ nextTxId = 1
    /\ txBudget = MaxMemTx
    /\ pc = [p \in Procs |-> "idle"]
    /\ user = [p \in Procs |-> NoUser]
    /\ body = [p \in Procs |-> NoBody]
    /\ txId = [p \in Procs |-> NoTx]
    /\ readFunds = [p \in Procs |-> 0]
    /\ funds = [p \in Procs |-> "none"]
    /\ resp = 0
    /\ lastVerify = NoVerify
    /\ credited = [s \in StartupIds |-> 0]
    /\ hist = <<>>
    /\ InitSessions
    /\ users = [u \in Users |-> UserDoc(u)]
    /\ updates = {}
    /\ result = NoCall
    /\ client = IdleClient

NextMem ==
    \/ \E p \in Procs, b \in MemBodies(Targets) : MemCreateTransaction(p, b)
    \/ \E p \in Procs : MemReturn(p)

SpecMem == InitMem /\ [][NextMem]_vars

\* The storage as constructed: both maps empty, both counters at 1.
InitMemClear ==
    /\ startups = <<>>
    /\ transactions = <<>>
    /\ nextTxId = 1
    /\ txBudget = MaxMemTx
    /\ pc = [p \in Procs |-> "idle"]
    /\ user = [p \in Procs |-> NoUser]
    /\ body = [p \in Procs |-> NoBody]
    /\ txId = [p \in Procs |-> NoTx]
    /\ readFunds = [p \in Procs |-> 0]
    /\ funds = [p \in Procs |-> "none"]
    /\ resp = 0
    /\ lastVerify = NoVerify
    /\ credited = [s \in StartupIds |-> 0]
    /\ hist = <<>>
    /\ InitSessions
    /\ InitOthers

\* The storage calls of the routes: a transaction is created for a startup
\* the route has found in the map.
NextMemClear ==
    \/ \E p \in Procs, b \in MemBodies(DOMAIN startups) : MemCreateTransaction(p, b)
    \/ \E p \in Procs : MemReturn(p)
    \/ \E u \in StartupUsers : MemCreateStartup(u)
    \/ MemDeleteAllStartups

SpecMemClear == InitMemClear /\ [][NextMemClear]_vars

\* ------------------------------------------------------------ specifications

\* What a request is tried with: the body is read only once the user is known
\* to be an investor.
BodiesOf(u) == IF u # NoUser /\ isInvestor(u) THEN Bodies ELSE {MalformedBody}

\* Concurrent create requests.
Next ==
    \/ \E p \in Procs, u \in Users \cup {NoUser} : \E b \in BodiesOf(u) :
           PostTransactions(p, u, b)
    \/ \E p \in Procs : GetStartup(p)
    \/ \E p \in Procs : StartSession(p)
    \/ \E p \in Procs : SaveTransaction(p)
    \/ \E p \in Procs : FindStartup(p)
    \/ \E p \in Procs : SaveStartup(p)
    \/ \E p \in Procs : CommitTransaction(p)
    \/ \E p \in Procs : AbortTransaction(p)

Spec == Init /\ [][Next]_vars

\* One create request at a time, and the owner's verification of what it stored.
VerifyProcs == {"p1"}

NextVerify ==
    \/ \E p \in VerifyProcs, u \in Users \cup {NoUser} : \E b \in BodiesOf(u) :
           PostTransactions(p, u, b)
    \/ \E p \in VerifyProcs : GetStartup(p)
    \/ \E p \in VerifyProcs : StartSession(p)
    \/ \E p \in VerifyProcs : SaveTransaction(p)
    \/ \E p \in VerifyProcs : FindStartup(p)
    \/ \E p \in VerifyProcs : SaveStartup(p)
    \/ \E p \in VerifyProcs : CommitTransaction(p)
    \/ \E p \in VerifyProcs : AbortTransaction(p)
    \/ \E u \in Users \cup {NoUser}, t \in 1..txBudget, st \in {"completed", "failed"} :
           VerifyTransaction(u, t, st)

SpecVerify == InitVerify /\ [][NextVerify]_vars

\* One create request at a time, its body drawn field by field.
NextValidate ==
    \/ \E p \in VerifyProcs, u \in Users \cup {NoUser} : \E raw \in RawBodiesOf(u) :
           PostTransactions(p, u, validatedData(raw))
    \/ \E p \in VerifyProcs : GetStartup(p)
    \/ \E p \in VerifyProcs : StartSession(p)
    \/ \E p \in VerifyProcs : SaveTransaction(p)
    \/ \E p \in VerifyProcs : FindStartup(p)
    \/ \E p \in VerifyProcs : SaveStartup(p)
    \/ \E p \in VerifyProcs : CommitTransaction(p)
    \/ \E p \in VerifyProcs : AbortTransaction(p)

SpecValidate == InitVerify /\ [][NextValidate]_vars

\* Concurrent createTransaction calls of one investor, each with a valid body:
\* a pending UPI payment to the first startup.
SessionBodies ==
    {[wellFormed |-> TRUE, startupId |-> "s1", amount |-> 1, method |-> "upi",
      status |-> "pending"]}

InitSession == InitStore /\ txBudget = MaxSessionTx

NextSession ==
    \/ \E p \in Procs, b \in SessionBodies : PostTransactions(p, "inv1", b)
    \/ \E p \in Procs : GetStartup(p)
    \/ \E p \in Procs : StartSession(p)
    \/ \E p \in Procs : SaveTransaction(p)
    \/ \E p \in Procs : FindStartup(p)
    \/ \E p \in Procs : SaveStartup(p)
    \/ \E p \in Procs : CommitTransaction(p)
    \/ \E p \in Procs : AbortTransaction(p)

\* Every await of createTransaction settles: the driver resolves or rejects
\* the promise and the event loop runs the continuation.
SessionFairness ==
    \A p \in Procs :
        /\ WF_vars(SaveTransaction(p))
        /\ WF_vars(FindStartup(p))
        /\ WF_vars(SaveStartup(p))
        /\ WF_vars(CommitTransaction(p))
        /\ WF_vars(AbortTransaction(p))

SpecSession == InitSession /\ [][NextSession]_vars /\ SessionFairness

\* One create request at a time, and the bulk delete of the startups.
NextClear ==
    \/ \E p \in VerifyProcs, u \in Users \cup {NoUser} : \E b \in BodiesOf(u) :
           PostTransactions(p, u, b)
    \/ \E p \in VerifyProcs : GetStartup(p)
    \/ \E p \in VerifyProcs : StartSession(p)
    \/ \E p \in VerifyProcs : SaveTransaction(p)
    \/ \E p \in VerifyProcs : FindStartup(p)
    \/ \E p \in VerifyProcs : SaveStartup(p)
    \/ \E p \in VerifyProcs : CommitTransaction(p)
    \/ \E p \in VerifyProcs : AbortTransaction(p)
    \/ ClearStartups

SpecClear == InitVerify /\ [][NextClear]_vars

\* Concurrent requests on the startup profiles, starting from an empty
\* Startup collection.
InitStartups ==
    /\ startups = <<>>
    /\ transactions = <<>>
    /\ nextTxId = 1
    /\ txBudget = 0
    /\ pc = [p \in Procs |-> "idle"]
    /\ user = [p \in Procs |-> NoUser]
    /\ body = [p \in Procs |-> NoBody]
    /\ txId = [p \in Procs |-> NoTx]
    /\ readFunds = [p \in Procs |-> 0]
    /\ funds = [p \in Procs |-> "none"]
    /\ resp = 0
    /\ lastVerify = NoVerify
    /\ credited = [s \in StartupIds |-> 0]
    /\ hist = <<>>
    /\ InitSessions
    /\ InitOthers

\* req.params.id of an edit: the ids of the documents SpecStartups can create
\* (an id not created yet resolves to nothing).
PatchTargets == {"s" \o ToString(n) : n \in 1..MaxStartups}

NextStartups ==
    \/ \E p \in Procs, u \in Users \cup {NoUser}, b \in StartupBodies :
           PostStartups(p, u, b)
    \/ \E p \in Procs : CheckExisting(p)
    \/ \E p \in Procs : CreateStartup(p)
    \/ \E p \in Procs, u \in Users \cup {NoUser}, id \in PatchTargets,
          b \in StartupBodies : PatchStartup(p, u, id, b)
    \/ \E p \in Procs : PatchGet(p)
    \/ \E p \in Procs : PatchOwner(p)
    \/ \E p \in Procs : PatchUpdate(p)

SpecStartups == InitStartups /\ [][NextStartups]_vars

\* The same two routes, one request at a time, with bodies that carry a
\* fundsRaised of their own.
NextFunds ==
    \/ \E p \in VerifyProcs, u \in Users \cup {NoUser}, b \in FundsBodies :
           PostStartups(p, u, b)
    \/ \E p \in VerifyProcs : CheckExisting(p)
    \/ \E p \in VerifyProcs : CreateStartup(p)
    \/ \E p \in VerifyProcs, u \in Users \cup {NoUser}, id \in PatchTargets,
          b \in FundsBodies : PatchStartup(p, u, id, b)
    \/ \E p \in VerifyProcs : PatchGet(p)
    \/ \E p \in VerifyProcs : PatchOwner(p)
    \/ \E p \in VerifyProcs : PatchUpdate(p)

SpecFunds == InitStartups /\ [][NextFunds]_vars

\* ------------------------------------------------------------ properties

RECURSIVE SumAmounts(_)
\* The sum of amount over a set of stored transaction ids.
SumAmounts(T) ==
    IF T = {} THEN 0
    ELSE LET t == CHOOSE x \in T : TRUE
         IN  transactions[t].amount + SumAmounts(T \ {t})

RowsOf(s) == {t \in DOMAIN transactions : transactions[t].startupId = s}

CompletedOf(s) == {t \in RowsOf(s) : transactions[t].status = "completed"}

\* No request is in flight.
Quiescent == \A p \in Procs : pc[p] = "idle"

\* No storage call has rejected so far: every _id drawn was committed, and the
\* aggregator call made for every stored row reported success.
NoStorageFault ==
    /\ DOMAIN transactions = 1..(nextTxId - 1)
    /\ \A t \in DOMAIN hist : hist[t].createAgg

\* C1: with no request in flight, each startup's fundsRaised equals the sum of
\* amount over the stored transactions that reference it and have status
\* completed.  Stated for the runs in which every amount is positive, no
\* storage call rejected and no increment was overwritten, where the code
\* still breaks it.
C1_FundsEqualCompletedSum ==
    (Quiescent /\ NoStorageFault
       /\ \A t \in DOMAIN transactions : transactions[t].amount > 0
       /\ \A s \in DOMAIN startups : startups[s].fundsRaised = credited[s])
    => \A s \in DOMAIN startups :
         startups[s].fundsRaised = SumAmounts(CompletedOf(s))

\* C2: createTransaction increments fundsRaised only for a transaction whose
\* status is completed; creating a transaction of any other status (a pending
\* upi transfer), of a positive amount, leaves every startup unchanged.
C2_IncrementOnlyIfCompleted ==
    [][\A p \in Procs :
         (pc[p] = "saveStartup" /\ pc'[p] = "commit"
            /\ body[p].amount > 0 /\ body[p].status # "completed")
         => startups' = startups]_vars

\* C3: once concurrent create requests of completed transactions with positive
\* amounts have all returned, with no storage call rejected, fundsRaised of a
\* startup is above its initial value (0) by the sum of their amounts: no
\* increment of updateStartupFunds is lost.
C3_NoLostUpdate ==
    (Quiescent /\ NoStorageFault
       /\ \A t \in DOMAIN transactions :
            transactions[t].amount > 0 /\ transactions[t].status = "completed")
    => \A s \in DOMAIN startups :
         startups[s].fundsRaised = SumAmounts(RowsOf(s))

\* C4: when createTransaction (of a positive amount) finishes, returning after
\* the commit or throwing after the abort, the transaction row is persisted if
\* and only if the increment of fundsRaised is.  Stated for the calls whose
\* funds update did not fail (that failure is C5's).
C4_RowAndIncrementAtomic ==
    [][\A p \in Procs :
         (pc[p] \in {"commit", "abort"} /\ pc'[p] = "idle"
            /\ body[p].amount > 0 /\ funds[p] # "failed")
         => ((txId[p] \in DOMAIN transactions') <=> (funds[p] = "ok"))]_vars

\* C5: when the funds update failed after the row was written, the create
\* request does not answer success, and the row is not stored with status
\* completed next to a counter that was not incremented.
C5_AggregatorFailureReported ==
    [][\A p \in Procs :
         (pc[p] = "commit" /\ funds[p] = "failed" /\ pc'[p] = "idle"
            /\ body[p].amount > 0)
         => /\ resp' # 201
            /\ ~(/\ txId[p] \in DOMAIN transactions'
                 /\ transactions'[txId[p]].status = "completed")]_vars

\* C6: a create request with amount <= 0 fails validation: no request with
\* such an amount gets past the schema, and no stored row has one.
C6_NonPositiveAmountRejected ==
    /\ \A p \in Procs : pc[p] # "idle" => body[p].amount > 0
    /\ \A t \in DOMAIN transactions : transactions[t].amount > 0

\* The owner of the startup a stored transaction references.
ownerOf(t) == startups[transactions[t].startupId].userId

C9_RejectedContributesNothing ==
    \A t \in DOMAIN transactions :
        (hist[t].decidedBy # NoUser /\ transactions[t].status = "failed"
           /\ transactions[t].amount > 0)
        => /\ ~hist[t].createAgg
           /\ hist[t].approveAgg = 0

\* C10: the status of a pending transaction changes only by a request of the
\* owner of the startup it references; a verify request of any other user is
\* refused and changes neither the transactions nor the startups.
C10_OnlyOwnerTransitions ==
    /\ [][\A t \in DOMAIN transactions :
            transactions'[t] # transactions[t]
            => /\ transactions[t].status = "pending"
               /\ lastVerify'.tx = t
               /\ lastVerify'.user = ownerOf(t)
               /\ hist'[t].decidedBy = ownerOf(t)]_vars
    /\ [][(lastVerify' # lastVerify /\ lastVerify'.tx \in DOMAIN transactions
             /\ lastVerify'.user # ownerOf(lastVerify'.tx))
          => /\ lastVerify'.outcome \in {"unauthenticated", "forbidden"}
             /\ transactions' = transactions
             /\ startups' = startups]_vars

\* A user with the startup role who does not own the referenced startup asked
\* to verify a pending transaction and was refused; the row is still pending.
C10_Witness ==
    \E t \in DOMAIN transactions :
        /\ transactions[t].status = "pending"
        /\ lastVerify = [user |-> "own2", tx |-> t, outcome |-> "forbidden"]
        /\ ownerOf(t) = "own1"
        /\ hist[t].decidedBy = NoUser

\* C11: the status a transaction (of a positive amount) is created with follows
\* from its method: metamask rows are stored completed, upi rows are stored
\* pending; no create request stores a upi row already completed, or a failed
\* row.  Under Spec no row is ever transitioned, so the stored status is the
\* initial one.
C11_StatusFollowsMethod ==
    \A t \in DOMAIN transactions :
        transactions[t].amount > 0
        => /\ transactions[t].method = "metamask"
                => transactions[t].status = "completed"
           /\ transactions[t].method = "upi"
                => transactions[t].status = "pending"

\* C12: creating a metamask transaction with status completed and amount a for
\* an existing startup, with no storage failure and no write to the startup
\* since updateStartupFunds read it, raises that startup's fundsRaised by
\* exactly a and leaves every other startup as it was; and the request then
\* stores the row, with status completed and that amount, and answers 201.
C12_WalletCreateCredits ==
    /\ [][\A p \in Procs :
            (pc[p] = "saveStartup" /\ funds'[p] = "ok"
               /\ body[p].method = "metamask" /\ body[p].status = "completed"
               /\ readFunds[p] = startups[body[p].startupId].fundsRaised)
            => /\ startups'[body[p].startupId].fundsRaised =
                    startups[body[p].startupId].fundsRaised + body[p].amount
               /\ \A s \in DOMAIN startups \ {body[p].startupId} :
                    startups'[s] = startups[s]]_vars
    /\ [][\A p \in Procs :
            (pc[p] = "commit" /\ funds[p] = "ok" /\ pc'[p] = "idle"
               /\ body[p].method = "metamask" /\ body[p].status = "completed")
            => /\ resp' = 201
               /\ txId[p] \in DOMAIN transactions'
               /\ transactions'[txId[p]].status = "completed"
               /\ transactions'[txId[p]].amount = body[p].amount
               /\ transactions'[txId[p]].startupId = body[p].startupId
               /\ startups' = startups]_vars

\* A metamask transaction of amount 1 is stored completed, its aggregator call
\* succeeded, and the startup it references went from 0 to 1 while the other
\* startup is still at 0.
C12_Witness ==
    /\ Quiescent
    /\ resp = 201
    /\ \E t \in DOMAIN transactions :
         /\ transactions[t].method = "metamask"
         /\ transactions[t].status = "completed"
         /\ transactions[t].amount = 1
         /\ transactions[t].startupId = "s1"
         /\ hist[t].createAgg
    /\ startups["s1"].fundsRaised = 1
    /\ startups["s2"].fundsRaised = 0

\* C13: fundsRaised of an existing startup never gets smaller from one state to
\* the next.
C13_FundsMonotonic ==
    [][\A s \in DOMAIN startups :
         s \in DOMAIN startups'
         => startups'[s].fundsRaised >= startups[s].fundsRaised]_vars

\* C14: POST /api/transactions answers 401 to an unauthenticated request and
\* 403 to a user whose role is not investor before any storage write: only an
\* authenticated investor's request ever goes past the checks, every stored
\* row was created by an investor, and a step that answers 401 or 403 changes
\* no transaction, no startup and draws no _id.
C14_AuthBeforeWrite ==
    /\ [](\A p \in Procs :
            pc[p] # "idle" => user[p] # NoUser /\ role(user[p]) = "investor")
    /\ [](\A t \in DOMAIN transactions :
            role(transactions[t].investorId) = "investor")
    /\ [][(resp' # resp /\ resp' \in {401, 403})
          => /\ transactions' = transactions
             /\ startups' = startups
             /\ nextTxId' = nextTxId
             /\ pc' = pc]_vars

\* A request was answered 403 while a row stored earlier and the counters are
\* as the create request that stored it left them.
C14_Witness ==
    /\ resp = 403
    /\ Quiescent
    /\ DOMAIN transactions = {1}
    /\ startups["s1"].fundsRaised = credited["s1"]

\* C17: a stored transaction stays stored, and its status changes only from
\* pending to completed or from pending to failed: a completed or failed row
\* keeps its status for ever.
C17_TerminalStatuses ==
    [][\A t \in DOMAIN transactions :
         /\ t \in DOMAIN transactions'
         /\ transactions'[t].status # transactions[t].status
              => /\ transactions[t].status = "pending"
                 /\ transactions'[t].status \in {"completed", "failed"}]_vars

\* The owner rejected a transaction, and a later verify request of the owner
\* for it was answered as not pending: the row is still failed.
C17_Witness ==
    \E t \in DOMAIN transactions :
        /\ transactions[t].status = "failed"
        /\ hist[t].decidedBy = ownerOf(t)
        /\ lastVerify = [user |-> ownerOf(t), tx |-> t, outcome |-> "notPending"]

\* C20: the transaction row is committed before the funds update is made: no
\* create request (of a positive amount) has its amount already added to
\* fundsRaised while its row is not among the committed transactions.
C20_RowDurableBeforeAggregate ==
    \A p \in Procs :
        (funds[p] = "ok" /\ body[p].amount > 0)
        => txId[p] \in DOMAIN transactions

\* C15: a create request whose startupId resolves to no startup is answered
\* 404 by the existence check, and a create request whose startup is gone when
\* updateStartupFunds looks for it, the startups having been deleted after the
\* existence check, persists no row and does not answer 201.
C15_MissingStartupRejected ==
    /\ [][\A p \in Procs :
            (pc[p] = "getStartup" /\ body[p].startupId \notin DOMAIN startups)
            => (pc'[p] = "getStartup" \/ (pc'[p] = "idle" /\ resp' = 404))]_vars
    /\ [][\A p \in Procs :
            (pc[p] = "commit" /\ funds[p] = "missing" /\ pc'[p] = "idle")
            => /\ resp' # 201
               /\ txId[p] \notin DOMAIN transactions']_vars

C18_OneStartupPerUser ==
    [][\A p \in Procs :
         (pc[p] = "createStartup" /\ DOMAIN startups' # DOMAIN startups)
         => startupsOfUser(user[p]) = {}]_vars

\* C19: the userId of an existing startup never changes.
C19_OwnerNeverChanges ==
    [][\A s \in DOMAIN startups :
         s \in DOMAIN startups'
         => startups'[s].userId = startups[s].userId]_vars

\* C25: the investorId of every stored transaction is the id of the user who
\* was authenticated on the create request, whatever investorId the request
\* body carried.
C25_InvestorIsAuthenticatedUser ==
    \A t \in DOMAIN transactions :
        /\ transactions[t].investorId = hist[t].createdBy
        /\ transactions[t].investorId # NoUser

\* A stored transaction whose request body carried another user's id.
C25_Witness ==
    \E t \in DOMAIN transactions :
        /\ hist[t].sentInvestorId = "own1"
        /\ hist[t].createdBy = "inv1"
        /\ transactions[t].investorId = "inv1"

C21_NewStartupHasNoFunds ==
    [][\A id \in DOMAIN startups' \ DOMAIN startups :
           startups'[id].fundsRaised = 0]_vars

\* The document stored last came from a body that carried fundsRaised.
C21_Witness ==
    /\ resp = 201
    /\ result.op = "createStartup"
    /\ result.stripped = {1}
    /\ result.id \in DOMAIN startups
    /\ startups[result.id].fundsRaised = 0

\* C29: no step of an edit request changes the fundsRaised of a stored
\* startup, whatever the body carried; and an edit request of a user who, at
\* the ownership check, does not own the startup is answered 403 there and
\* changes nothing.
C29_PatchKeepsFunds ==
    /\ [][\A id \in DOMAIN startups \cap DOMAIN startups' :
             startups'[id].fundsRaised = startups[id].fundsRaised]_vars
    /\ [][\A p \in Procs :
             /\ pc[p] = "patchOwner"
             /\ pc'[p] # "patchOwner"
             /\ body[p].startupId \in DOMAIN startups
             /\ startups[body[p].startupId].userId # user[p]
             => /\ resp' = 403
                /\ pc'[p] = "idle"
                /\ startups' = startups]_vars

\* An edit whose body carried fundsRaised was applied for its owner, and the
\* edit of another user is waiting at the ownership check.
C29_Witness ==
    /\ resp = 200
    /\ result.op = "updateStartup"
    /\ result.stripped = {1}
    /\ \E p \in Procs :
          /\ pc[p] = "patchOwner"
          /\ body[p].fundsRaised = {1}
          /\ body[p].startupId \in DOMAIN startups
          /\ startups[body[p].startupId].userId # user[p]

C23_CreateAfterSend ==
    /\ [](/\ Len(client.posted) = Len(client.sent)
          /\ \A k \in 1..Len(client.posted) :
                /\ client.posted[k].transactionReference = client.sent[k]
                /\ client.posted[k].transactionReference \in Hashes)
    /\ [][client'.posted # client.posted =>
             /\ client.pc = "send"
             /\ Len(client'.sent) = Len(client.sent) + 1]_vars
    /\ [][client.pc = "send" /\ client'.toast = "failed" =>
             client'.posted = client.posted]_vars

\* A send was rejected after an earlier one had returned a hash: one create
\* request, with that hash, has been issued.
C23_Witness ==
    /\ client.pc = "idle"
    /\ client.toast = "failed"
    /\ Len(client.sent) = 1
    /\ Len(client.posted) = 1
    /\ client.posted[1].transactionReference = client.sent[1]

\* C24: no step changes the role, the username, the email or the password of
\* a user: updateUserWallet, updateUserUpi, updateUserProfile and
\* updateUserUpiQr write other fields only.
C24_RoleNeverChanges ==
    [][\A u \in Users :
          /\ users'[u].role = users[u].role
          /\ users'[u].username = users[u].username
          /\ users'[u].email = users[u].email
          /\ users'[u].password = users[u].password]_vars

\* A user on whose document each of the four operations has written, and who
\* still has the role, username, email and password of the registration.
C24_Witness ==
    \E u \in Users :
        /\ users[u].walletAddress # NoWallet
        /\ users[u].upiId # Unset
        /\ users[u].upiQrCode # Unset
        /\ users[u].profilePicture # Unset
        /\ users[u].role = role(u)
        /\ users[u].username = UserDoc(u).username
        /\ users[u].email = UserDoc(u).email
        /\ users[u].password = UserDoc(u).password

\* C27: no two distinct users hold the same wallet address, the null of a
\* user without a wallet aside.
C27_WalletLinkedOnce ==
    \A u \in Users, v \in Users :
        u # v /\ users[u].walletAddress # NoWallet =>
            users[u].walletAddress # users[v].walletAddress

\* C26: a startup that MemStorage.createStartup has just stored has an id that
\* no stored transaction references, so getTransactionsByStartupId of the new
\* startup is empty.
C26_StartupIdsNotReused ==
    [][\A id \in DOMAIN startups' \ DOMAIN startups :
           \A t \in DOMAIN transactions' : transactions'[t].startupId # id]_vars

\* C28: under MemStorage, whatever the interleaving of the createTransaction
\* calls, the fundsRaised of an existing startup is its initial 0 plus the sum
\* of the amounts of all calls made for it: each call raises it by exactly
\* its amount before it suspends, and the continuation of a call changes
\* nothing.
C28_MemFundsAreSum ==
    /\ [](\A s \in DOMAIN startups :
             startups[s].fundsRaised = SumAmounts(RowsOf(s)))
    /\ [][\A p \in Procs :
             pc[p] = "idle" /\ pc'[p] = "memReturn" =>
                 LET b == transactions'[txId'[p]]
                 IN  \A s \in DOMAIN startups :
                         startups'[s].fundsRaised =
                             startups[s].fundsRaised
                                 + (IF s = b.startupId THEN b.amount ELSE 0)]_vars
    /\ [][\A p \in Procs :
             pc[p] = "memReturn" /\ pc'[p] = "idle" => startups' = startups]_vars

\* Two calls for the first startup have been made, the second while the first
\* was still suspended; both have returned and the startup holds the sum.
C28_Witness ==
    /\ Quiescent
    /\ result.op = "createTransaction"
    /\ result.id = 1
    /\ Cardinality(RowsOf("s1")) = 2
    /\ \A t \in RowsOf("s1") : transactions[t].amount = 1
    /\ startups["s1"].fundsRaised = 2

====
